---- MODULE Spec2Model ----
(***************************************************************************)
(* Model of aptsources_cleanup/util/functools.py: the function combinator  *)
(* comp and the lazy-instantiation proxy LazyInstance.                     *)
(***************************************************************************)
EXTENDS Integers, Sequences, FiniteSets, TLC

VARIABLES
    ctor,       \* the arguments the proxy was constructed with
    self,       \* the LazyInstance object: its four __slots__ fields
    debug,      \* __debug__: TRUE unless the interpreter runs with -O (assert statements stripped)
    calls,      \* number of times the factory has been invoked so far
    deferred,   \* the deferred callables (lambdas of line 117) handed out so far
    nops,       \* number of operations performed on the proxy so far
    last,       \* the last operation on the proxy and its outcome
    pending,    \* the map object of line 107 being iterated: its items and how many it has produced
    ctx,        \* per execution context reading _instance concurrently: its position in lines 72-79
    funcs,      \* comp: the argument tuple *funcs
    x,          \* comp: the input the composed callable is applied to
    composed,   \* comp: the callable comp(*funcs) returned
    cres,       \* comp: the result of composed(x)
    cpc         \* comp: position of the comp scenario

lazyVars == <<ctor, self, debug, calls, deferred, nops, last, pending>>
compVars == <<funcs, x, composed, cres, cpc>>
vars == <<ctor, self, debug, calls, deferred, nops, last, pending, ctx, funcs, x, composed, cres, cpc>>

----------------------------------------------------------------------------
(* Bounds *)

\* operations performed on one proxy in one behaviour
MaxOps == 4
\* longest argument list given to comp
MaxFuncs == 3
\* comp's functions act on the integers modulo ValMod
ValMod == 5

----------------------------------------------------------------------------
(* The Python objects the proxy meets *)

\* attribute names used in accesses: "run" is a method of class A, "size" a
\* non-callable class attribute of A, "extra" an attribute set on instances
\* of A only (by A.__init__), "foo" is found nowhere
Names == {"run", "size", "extra", "foo"}

\* arguments given to deferred callables
Args == {1, 2}

Obj(cls, id) == [cls |-> cls, id |-> id]

\* Python's None
None == Obj("NoneType", 0)

\* the class object A itself (the type hint SomeClass), as the holder of a
\* failed class-level lookup
TypeA == Obj("type", 0)

\* the factories a proxy is built with: the class A itself, a function
\* returning a new A, a function returning an instance of the unrelated
\* class B, a function returning None, a function that raises
Factories == {"classA", "makeA", "makeB", "makeNone", "raiser"}

\* the values given as type_hint: None, the class A, and the integer 1,
\* which is not a type
TypeHints == {"None", "A", "one"}

\* isinstance(v, TypesType): the class A, given as the factory or as the hint
IsTypesType(v) == v \in {"classA", "A"}

\* getattr(A, name) succeeds
TypeHasAttr(name) == name \in {"run", "size"}

\* callable(getattr(A, name, None))
TypeAttrCallable(name) == name = "run"

\* names getattr(obj, name) finds on an instance of class cls
ObjAttrs(cls) ==
    CASE cls = "A" -> {"run", "size", "extra"}
      [] cls = "B" -> {"run"}
      [] OTHER -> {}

\* isinstance(obj, A)
IsInstanceA(obj) == obj.cls = "A"

\* outcome of an operation: kind is "value" (a non-callable attribute value),
\* "method" (a bound method of obj), "return" (what obj.name(arg) returned),
\* "instance" (the wrapped object itself), "deferred" (a lambda of line 117)
\* or the name of the exception raised
Result(kind, obj, name, arg) == [kind |-> kind, obj |-> obj, name |-> name, arg |-> arg]

IsError(r) == r.kind \in {"AttributeError", "TypeError", "AssertionError", "FactoryError"}

\* getattr(obj, name) for a string name
GetattrObj(obj, name) ==
    IF name \in ObjAttrs(obj.cls)
    THEN Result(IF name = "run" THEN "method" ELSE "value", obj, name, 0)
    ELSE Result("AttributeError", obj, name, 0)

\* r(*args): calling what an attribute lookup produced
CallResult(r, arg) ==
    CASE IsError(r) -> r
      [] r.kind = "method" -> Result("return", r.obj, r.name, arg)
      [] OTHER -> Result("TypeError", r.obj, r.name, arg)

\* calling the factory for the n-th time: the exception or the new object
FactoryCall(factory, n) ==
    CASE factory = "raiser" -> [raised |-> TRUE, obj |-> None]
      [] factory = "makeNone" -> [raised |-> FALSE, obj |-> None]
      [] factory = "makeB" -> [raised |-> FALSE, obj |-> Obj("B", n)]
      [] OTHER -> [raised |-> FALSE, obj |-> Obj("A", n)]

----------------------------------------------------------------------------
(* LazyInstance *)

\* __init__ never raising: the type hint is stored unchecked
InitRaises_Never(type_hint) == FALSE

\* LazyInstance.__init__ raises TypeError (lines 59-61)
InitRaises(type_hint) == type_hint # "None" /\ ~IsTypesType(type_hint)

\* LazyInstance.__init__(factory, type_hint, strict): the fields assigned;
\* when line 60 raises, the slot _li_type_hint is left unset and no proxy
\* is handed to the caller
NewLazyInstance(factory, type_hint, strict) ==
    [_li_instance |-> None,
     _li_factory |-> factory,
     _li_strict |-> strict,
     _li_type_hint |->
        IF type_hint = "None"
        THEN (IF IsTypesType(factory) THEN "A" ELSE "None")
        ELSE IF InitRaises(type_hint) THEN "unset"
        ELSE type_hint]

\* what LazyInstance(factory, type_hint, strict) gives its caller
NewOutcome(type_hint) ==
    IF InitRaises(type_hint)
    THEN Result("TypeError", None, "", 0)
    ELSE Result("instance", None, "", 0)

\* _instance without the assert of lines 74-75
InstanceProp_NoCheck(s, n) ==
    IF s._li_factory # "None"
    THEN LET c == FactoryCall(s._li_factory, n + 1)
         IN  IF c.raised
             THEN [self |-> s, calls |-> n + 1,
                   out |-> Result("FactoryError", None, "", 0)]
             ELSE [self |-> [s EXCEPT !._li_instance = c.obj, !._li_factory = "None",
                                      !._li_type_hint = "None"],
                   calls |-> n + 1,
                   out |-> Result("instance", c.obj, "", 0)]
    ELSE [self |-> s, calls |-> n, out |-> Result("instance", s._li_instance, "", 0)]

\* _instance without line 76: the factory is never cleared
InstanceProp_KeepsFactory(s, n) ==
    LET c == FactoryCall(s._li_factory, n + 1)
        s1 == [s EXCEPT !._li_instance = c.obj]
    IN  IF c.raised
        THEN [self |-> s, calls |-> n + 1, out |-> Result("FactoryError", None, "", 0)]
        ELSE IF debug /\ ~(s1._li_type_hint = "None" \/ IsInstanceA(s1._li_instance))
        THEN [self |-> s1, calls |-> n + 1,
              out |-> Result("AssertionError", s1._li_instance, "", 0)]
        ELSE [self |-> s1, calls |-> n + 1, out |-> Result("instance", s1._li_instance, "", 0)]

\* _instance with line 76 moved before the call of line 73: the factory is
\* cleared before it is known to have returned
InstanceProp_ClearsFirst(s, n) ==
    IF s._li_factory # "None"
    THEN LET c == FactoryCall(s._li_factory, n + 1)
             s0 == [s EXCEPT !._li_factory = "None"]
             s1 == [s0 EXCEPT !._li_instance = c.obj]
         IN  IF c.raised
             THEN [self |-> s0, calls |-> n + 1,
                   out |-> Result("FactoryError", None, "", 0)]
             ELSE IF debug /\ ~(s1._li_type_hint = "None" \/ IsInstanceA(s1._li_instance))
             THEN [self |-> s1, calls |-> n + 1,
                   out |-> Result("AssertionError", s1._li_instance, "", 0)]
             ELSE [self |-> [s1 EXCEPT !._li_type_hint = "None"],
                   calls |-> n + 1,
                   out |-> Result("instance", s1._li_instance, "", 0)]
    ELSE [self |-> s, calls |-> n, out |-> Result("instance", s._li_instance, "", 0)]

\* _instance clearing the factory only when the product is not None
InstanceProp_ClearsIfInstance(s, n) ==
    IF s._li_factory # "None"
    THEN LET c == FactoryCall(s._li_factory, n + 1)
             s1 == [s EXCEPT !._li_instance = c.obj]
         IN  IF c.raised
             THEN [self |-> s, calls |-> n + 1,
                   out |-> Result("FactoryError", None, "", 0)]
             ELSE IF debug /\ ~(s1._li_type_hint = "None" \/ IsInstanceA(s1._li_instance))
             THEN [self |-> s1, calls |-> n + 1,
                   out |-> Result("AssertionError", s1._li_instance, "", 0)]
             ELSE [self |-> IF c.obj = None THEN s1
                            ELSE [s1 EXCEPT !._li_factory = "None", !._li_type_hint = "None"],
                   calls |-> n + 1,
                   out |-> Result("instance", s1._li_instance, "", 0)]
    ELSE [self |-> s, calls |-> n, out |-> Result("instance", s._li_instance, "", 0)]

\* the property LazyInstance._instance, read when the factory has been
\* invoked n times: the object after the read, the number of factory
\* invocations, and the value returned or the exception raised
InstanceProp(s, n) ==
    IF s._li_factory # "None"
    THEN LET c == FactoryCall(s._li_factory, n + 1)
             s1 == [s EXCEPT !._li_instance = c.obj]
         IN  IF c.raised
             THEN [self |-> s, calls |-> n + 1,
                   out |-> Result("FactoryError", None, "", 0)]
             ELSE IF debug /\ ~(s1._li_type_hint = "None" \/ IsInstanceA(s1._li_instance))
             THEN [self |-> s1, calls |-> n + 1,
                   out |-> Result("AssertionError", s1._li_instance, "", 0)]
             ELSE [self |-> [s1 EXCEPT !._li_factory = "None", !._li_type_hint = "None"],
                   calls |-> n + 1,
                   out |-> Result("instance", s1._li_instance, "", 0)]
    ELSE [self |-> s, calls |-> n, out |-> Result("instance", s._li_instance, "", 0)]

\* what a caller hands over as a method or name: an attribute name (form
\* "name") or a one-argument getter such as lambda o: o.run (form "getter")
Item(form, name) == [form |-> form, name |-> name, tuple |-> FALSE]

Items ==
    {Item("name", "run"), Item("getter", "run"), Item("name", "size"),
     Item("name", "foo")}

\* the argument tuple (item,) of a one-argument call f(*methods_or_names)
Tuple1(item) == [item EXCEPT !.tuple = TRUE]

\* callable(method_or_name)
Callable(m) == m.form = "getter" /\ ~m.tuple

\* methodcaller(getattr, m): the getter lambda obj: getattr(obj, m)
methodcaller(m) == [mc |-> TRUE, form |-> m.form, name |-> m.name, tuple |-> m.tuple]

\* a callable used as the getter as it is
AsGetter(m) == [mc |-> FALSE, form |-> m.form, name |-> m.name, tuple |-> m.tuple]

\* method_or_name(obj) for the getter g
ApplyGetter(g, obj) ==
    IF g.mc
    THEN (IF g.form = "name" /\ ~g.tuple
          THEN GetattrObj(obj, g.name)
          ELSE Result("TypeError", obj, g.name, 0))
    ELSE GetattrObj(obj, g.name)

\* a deferred callable: how it was obtained ("getattr", "bind" or "map"), the item
\* the caller asked for, and the getter the lambda closes over
Deferred(by, item, g) == [by |-> by, item |-> item, getter |-> g]

\* _li_bind_method_impl without lines 114-115: a lambda is returned in
\* every state
BindMethodImpl_AlwaysDefers(s, m) ==
    LET g == IF ~Callable(m) THEN methodcaller(m) ELSE AsGetter(m)
    IN  [isLambda |-> TRUE, getter |-> g, out |-> Result("deferred", None, m.name, 0)]

\* _li_bind_method_impl with the test of line 114 dropped: the target is
\* looked up on the instance field at once in every state
BindMethodImpl_NeverDefers(s, m) ==
    LET g == IF ~Callable(m) THEN methodcaller(m) ELSE AsGetter(m)
    IN  [isLambda |-> FALSE, getter |-> g, out |-> ApplyGetter(g, s._li_instance)]

\* LazyInstance._li_bind_method_impl(method_or_name): the value returned
\* (out) and, when that is a new lambda, the getter it closes over
BindMethodImpl(s, m) ==
    LET g == IF ~Callable(m) THEN methodcaller(m) ELSE AsGetter(m)
    IN  IF s._li_factory = "None"
        THEN [isLambda |-> FALSE, getter |-> g, out |-> ApplyGetter(g, s._li_instance)]
        ELSE [isLambda |-> TRUE, getter |-> g, out |-> Result("deferred", None, m.name, 0)]

\* the lambda closing over the factory instead of going through _instance:
\* every invocation builds the instance anew
LambdaCall_Recreates(s, n, g, arg) ==
    LET c == FactoryCall(ctor.factory, n + 1)
    IN  IF c.raised
        THEN [self |-> s, calls |-> n + 1, out |-> Result("FactoryError", None, "", 0)]
        ELSE [self |-> [s EXCEPT !._li_instance = c.obj, !._li_factory = "None",
                                 !._li_type_hint = "None"],
              calls |-> n + 1,
              out |-> CallResult(ApplyGetter(g, c.obj), arg)]

\* the lambda resolving its target on the instance field as it was when the
\* lambda was made (None), without going through _instance
LambdaCall_Stale(s, n, g, arg) ==
    [self |-> s, calls |-> n, out |-> CallResult(ApplyGetter(g, None), arg)]

\* the lambda of line 117 called with one argument
LambdaCall(s, n, g, arg) ==
    LET i == InstanceProp(s, n)
    IN  IF IsError(i.out)
        THEN i
        ELSE [i EXCEPT !.out = CallResult(ApplyGetter(g, i.out.obj), arg)]

\* __getattr__ with line 87 dropped: the type hint is always looked up as
\* in strict mode
GetattrImpl_AlwaysStrict(s, n, name) ==
    LET forced == LET i == InstanceProp(s, n)
                  IN  [self |-> i.self, calls |-> i.calls, new |-> {},
                       out |-> IF IsError(i.out) THEN i.out ELSE GetattrObj(i.out.obj, name)]
    IN  IF s._li_type_hint # "None"
        THEN IF ~TypeHasAttr(name)
             THEN [self |-> s, calls |-> n, new |-> {},
                   out |-> Result("AttributeError", TypeA, name, 0)]
             ELSE IF TypeAttrCallable(name)
             THEN LET b == BindMethodImpl(s, Item("name", name))
                  IN  [self |-> s, calls |-> n,
                       new |-> IF b.isLambda
                               THEN {Deferred("getattr", Item("name", name), b.getter)}
                               ELSE {},
                       out |-> b.out]
             ELSE forced
        ELSE forced

\* __getattr__ with line 85 dropped: the type hint is always looked up as
\* in non-strict mode
GetattrImpl_NeverStrict(s, n, name) ==
    LET forced == LET i == InstanceProp(s, n)
                  IN  [self |-> i.self, calls |-> i.calls, new |-> {},
                       out |-> IF IsError(i.out) THEN i.out ELSE GetattrObj(i.out.obj, name)]
    IN  IF s._li_type_hint # "None" /\ TypeAttrCallable(name)
        THEN LET b == BindMethodImpl(s, Item("name", name))
             IN  [self |-> s, calls |-> n,
                  new |-> IF b.isLambda
                          THEN {Deferred("getattr", Item("name", name), b.getter)}
                          ELSE {},
                  out |-> b.out]
        ELSE forced

\* __getattr__ without lines 88-89: every access forces the instance
GetattrImpl_Eager(s, n, name) ==
    LET i == InstanceProp(s, n)
    IN  IF s._li_type_hint # "None" /\ s._li_strict /\ ~TypeHasAttr(name)
        THEN [self |-> s, calls |-> n, new |-> {},
              out |-> Result("AttributeError", TypeA, name, 0)]
        ELSE [self |-> i.self, calls |-> i.calls, new |-> {},
              out |-> IF IsError(i.out) THEN i.out ELSE GetattrObj(i.out.obj, name)]

\* LazyInstance.__getattr__(name)
GetattrImpl(s, n, name) ==
    LET forced == LET i == InstanceProp(s, n)
                  IN  [self |-> i.self, calls |-> i.calls, new |-> {},
                       out |-> IF IsError(i.out) THEN i.out ELSE GetattrObj(i.out.obj, name)]
    IN  IF s._li_type_hint # "None"
        THEN IF s._li_strict /\ ~TypeHasAttr(name)
             THEN [self |-> s, calls |-> n, new |-> {},
                   out |-> Result("AttributeError", TypeA, name, 0)]
             ELSE IF TypeAttrCallable(name)
             THEN LET b == BindMethodImpl(s, Item("name", name))
                  IN  [self |-> s, calls |-> n,
                       new |-> IF b.isLambda
                               THEN {Deferred("getattr", Item("name", name), b.getter)}
                               ELSE {},
                       out |-> b.out]
             ELSE forced
        ELSE forced

\* LazyInstance._bind_method(item): the one-argument call
BindMethodOne(s, item) ==
    LET b == BindMethodImpl(s, Tuple1(item))
    IN  [new |-> IF b.isLambda THEN {Deferred("bind", item, b.getter)} ELSE {},
         out |-> b.out]

\* the record of an operation: which one, on which item, with which
\* argument, the proxy and the number of factory invocations before it, and
\* its outcome
Op(op, item, arg, pre, before, out) ==
    [op |-> op, item |-> item, arg |-> arg, pre |-> pre, before |-> before, out |-> out]

Ctor(factory, type_hint, strict) ==
    [factory |-> factory, type_hint |-> type_hint, strict |-> strict]

NoItem == Item("name", "")

\* the caller holds a proxy: the constructor returned one
Built == last.op # "new" \/ ~IsError(last.out)

\* the argument lists of the calls _bind_method(a, b) and _bind_method(a, b, c)
ManyItems ==
    {<<Item("name", "run"), Item("getter", "run")>>,
     <<Item("getter", "run"), Item("name", "run")>>,
     <<Item("name", "run"), Item("name", "foo"), Item("getter", "run")>>}

\* a map object: the items it maps over, the number of elements it has
\* produced so far, and whether the proxy was Unconstructed when
\* _bind_method made it
MapObject(items, pos, fresh) == [items |-> items, pos |-> pos, fresh |-> fresh]

NoMap == MapObject(<<>>, 0, FALSE)

----------------------------------------------------------------------------
(* Actions of the proxy *)

InitLazy ==
    /\ debug \in BOOLEAN
    /\ \E factory \in Factories, type_hint \in TypeHints, strict \in BOOLEAN :
          /\ ctor = Ctor(factory, type_hint, strict)
          /\ self = NewLazyInstance(factory, type_hint, strict)
          /\ last = Op("new", NoItem, 0, self, 0, NewOutcome(type_hint))
    /\ calls = 0
    /\ deferred = {}
    /\ nops = 0
    /\ pending = NoMap

\* proxy.name
GetAttr ==
    /\ Built
    /\ nops < MaxOps
    /\ \E name \in Names :
          LET r == GetattrImpl(self, calls, name)
          IN  /\ self' = r.self
              /\ calls' = r.calls
              /\ deferred' = deferred \cup r.new
              /\ last' = Op("getattr", Item("name", name), 0, self, calls, r.out)
    /\ nops' = nops + 1
    /\ UNCHANGED <<ctor, debug, pending>>

\* proxy._bind_method(item)
BindMethod ==
    /\ Built
    /\ nops < MaxOps
    /\ \E item \in Items :
          LET r == BindMethodOne(self, item)
          IN  /\ deferred' = deferred \cup r.new
              /\ last' = Op("bind", item, 0, self, calls, r.out)
    /\ nops' = nops + 1
    /\ UNCHANGED <<ctor, self, calls, debug, pending>>

\* m = proxy._bind_method(a, b, ...): line 107 returns a map object and
\* calls nothing yet; one map object is iterated at a time
BindMethodMany ==
    /\ Built
    /\ nops < MaxOps
    /\ pending.pos = Len(pending.items)
    /\ \E items \in ManyItems :
          /\ pending' = MapObject(items, 0, self._li_factory # "None")
          /\ last' = Op("bind_many", NoItem, Len(items), self, calls,
                        Result("map", None, "", 0))
    /\ nops' = nops + 1
    /\ UNCHANGED <<ctor, self, calls, deferred, debug>>

\* next(m): the map object calls _li_bind_method_impl on its next item
MapNext ==
    /\ Built
    /\ nops < MaxOps
    /\ pending.pos < Len(pending.items)
    /\ LET item == pending.items[pending.pos + 1]
           b == BindMethodImpl(self, item)
       IN  /\ deferred' = deferred \cup
                  (IF b.isLambda THEN {Deferred("map", item, b.getter)} ELSE {})
           /\ last' = Op("next", item, pending.pos + 1, self, calls, b.out)
    /\ pending' = MapObject(pending.items, pending.pos + 1, pending.fresh)
    /\ nops' = nops + 1
    /\ UNCHANGED <<ctor, self, calls, debug>>

\* d(arg) for a deferred callable d obtained earlier
InvokeDeferred ==
    /\ Built
    /\ nops < MaxOps
    /\ \E d \in deferred, arg \in Args :
          LET r == LambdaCall(self, calls, d.getter, arg)
          IN  /\ self' = r.self
              /\ calls' = r.calls
              /\ last' = Op("invoke_" \o d.by, d.item, arg, self, calls, r.out)
    /\ nops' = nops + 1
    /\ UNCHANGED <<ctor, deferred, debug, pending>>

\* proxy._instance: the explicit forced access
ForceInstance ==
    /\ Built
    /\ nops < MaxOps
    /\ LET r == InstanceProp(self, calls)
       IN  /\ self' = r.self
           /\ calls' = r.calls
           /\ last' = Op("instance", NoItem, 0, self, calls, r.out)
    /\ nops' = nops + 1
    /\ UNCHANGED <<ctor, deferred, debug, pending>>

----------------------------------------------------------------------------
(* comp *)

\* what comp is given: three unary functions on 0..ValMod-1 and the integer
\* 1, which is not callable
Funcs == {"inc", "dbl", "neg"}

Elems == Funcs \cup {"one"}

Vals == 0 .. (ValMod - 1)

\* callable(f)
callable(f) == f \in Funcs

Value(v) == [kind |-> "value", v |-> v]

Raised(kind) == [kind |-> kind, v |-> 0]

\* f(v) for one of the functions
Apply(f, v) ==
    CASE f = "inc" -> (v + 1) % ValMod
      [] f = "dbl" -> (2 * v) % ValMod
      [] OTHER -> (ValMod - v) % ValMod

\* operator.rapply(arg, func): func(arg)
rapply(arg, func) ==
    IF arg.kind # "value" THEN arg
    ELSE IF callable(func) THEN Value(Apply(func, arg.v))
    ELSE Raised("TypeError")

\* functools.reduce(rapply, seq, initial)
RECURSIVE reduce(_, _)
reduce(seq, initial) ==
    IF seq = <<>> THEN initial
    ELSE reduce(Tail(seq), rapply(initial, Head(seq)))

\* the callables comp returns: kind is "identity", "func" (the function
\* named f itself), "partial" (partial(reduce, rapply, fs)); and
\* "AssertionError" when the call raises instead
Callable0(kind, f, fs) == [kind |-> kind, f |-> f, fs |-> fs]

Reversed(fs) == [i \in 1 .. Len(fs) |-> fs[Len(fs) + 1 - i]]

\* comp folding over reversed(funcs)
comp_Reversed(fs) ==
    IF debug /\ ~(\A i \in 1 .. Len(fs) : callable(fs[i]))
    THEN Callable0("AssertionError", "", <<>>)
    ELSE IF Len(fs) <= 1
    THEN (IF fs # <<>> THEN Callable0("func", fs[1], <<>>)
          ELSE Callable0("identity", "", <<>>))
    ELSE Callable0("partial", "", Reversed(fs))

\* comp wrapping every argument list in partial(reduce, rapply, funcs)
comp_AlwaysPartial(fs) ==
    IF debug /\ ~(\A i \in 1 .. Len(fs) : callable(fs[i]))
    THEN Callable0("AssertionError", "", <<>>)
    ELSE Callable0("partial", "", fs)

\* comp without the assert of line 20
comp_NoAssert(fs) ==
    IF Len(fs) <= 1
    THEN (IF fs # <<>> THEN Callable0("func", fs[1], <<>>)
          ELSE Callable0("identity", "", <<>>))
    ELSE Callable0("partial", "", fs)

\* comp(*fs)
comp(fs) ==
    IF debug /\ ~(\A i \in 1 .. Len(fs) : callable(fs[i]))
    THEN Callable0("AssertionError", "", <<>>)
    ELSE IF Len(fs) <= 1
    THEN (IF fs # <<>> THEN Callable0("func", fs[1], <<>>)
          ELSE Callable0("identity", "", <<>>))
    ELSE Callable0("partial", "", fs)

\* operator.identity(v)
identity(v) == v

\* c(v) for what comp returned
CallComposed(c, v) ==
    CASE c.kind = "identity" -> identity(Value(v))
      [] c.kind = "func" -> rapply(Value(v), c.f)
      [] c.kind = "partial" -> reduce(c.fs, Value(v))
      [] OTHER -> Raised(c.kind)

SeqsUpTo(S, n) == UNION {[1 .. k -> S] : k \in 0 .. n}

NoCallable == Callable0("none", "", <<>>)

InitComp ==
    /\ funcs \in SeqsUpTo(Elems, MaxFuncs)
    /\ x \in Vals
    /\ composed = NoCallable
    /\ cres = Raised("none")
    /\ cpc = "start"

\* g = comp(*funcs)
Compose ==
    /\ cpc = "start"
    /\ composed' = comp(funcs)
    /\ cpc' = IF comp(funcs).kind = "AssertionError" THEN "failed" ELSE "composed"
    /\ UNCHANGED <<funcs, x, cres>>

\* g(x)
Invoke ==
    /\ cpc = "composed"
    /\ cres' = CallComposed(composed, x)
    /\ cpc' = "done"
    /\ UNCHANGED <<funcs, x, composed>>

----------------------------------------------------------------------------
(* _instance read by two execution contexts at once *)

Threads == {"t1", "t2"}

\* a context: the line of _instance it is about to execute, the object its
\* factory call returned, and what its read of _instance gave in the end
Context(pc, prod, ret) == [pc |-> pc, prod |-> prod, ret |-> ret]

NoRet == Result("none", None, "", 0)

\* line 73's call made only when no instance has been stored yet
InstanceCall_Rechecks(s, n) ==
    IF s._li_instance # None
    THEN [called |-> FALSE, raised |-> FALSE, obj |-> s._li_instance, kind |-> ""]
    ELSE IF s._li_factory = "None"
    THEN [called |-> FALSE, raised |-> TRUE, obj |-> None, kind |-> "TypeError"]
    ELSE LET c == FactoryCall(s._li_factory, n + 1)
         IN  [called |-> TRUE, raised |-> c.raised, obj |-> c.obj,
              kind |-> "FactoryError"]

\* self._li_factory() of line 73, with the field read at that moment: a
\* factory cleared since the test of line 72 is None, and None() raises
\* TypeError
InstanceCall(s, n) ==
    IF s._li_factory = "None"
    THEN [called |-> FALSE, raised |-> TRUE, obj |-> None, kind |-> "TypeError"]
    ELSE LET c == FactoryCall(s._li_factory, n + 1)
         IN  [called |-> TRUE, raised |-> c.raised, obj |-> c.obj,
              kind |-> "FactoryError"]

\* line 72: if self._li_factory is not None
TTest(t) ==
    /\ ctx[t].pc = "test"
    /\ ctx' = [ctx EXCEPT ![t].pc =
                  IF self._li_factory # "None" THEN "call" ELSE "return"]
    /\ UNCHANGED <<ctor, self, debug, calls, deferred, nops, last, pending>>

\* line 73, right-hand side: self._li_factory()
TCall(t) ==
    /\ ctx[t].pc = "call"
    /\ LET c == InstanceCall(self, calls)
       IN  /\ calls' = IF c.called THEN calls + 1 ELSE calls
           /\ ctx' = [ctx EXCEPT ![t] =
                  IF c.raised
                  THEN Context("raised", None, Result(c.kind, None, "", 0))
                  ELSE Context("store", c.obj, NoRet)]
    /\ UNCHANGED <<ctor, self, debug, deferred, nops, last, pending>>

\* line 73, assignment: self._li_instance = ...
TStore(t) ==
    /\ ctx[t].pc = "store"
    /\ self' = [self EXCEPT !._li_instance = ctx[t].prod]
    /\ ctx' = [ctx EXCEPT ![t].pc = "assert"]
    /\ UNCHANGED <<ctor, debug, calls, deferred, nops, last, pending>>

\* lines 74-75: the assert, reading both fields as they are now
TAssert(t) ==
    /\ ctx[t].pc = "assert"
    /\ ctx' = [ctx EXCEPT ![t] =
                  IF debug /\ ~(self._li_type_hint = "None"
                                  \/ IsInstanceA(self._li_instance))
                  THEN Context("raised", ctx[t].prod,
                               Result("AssertionError", self._li_instance, "", 0))
                  ELSE Context("clear_factory", ctx[t].prod, NoRet)]
    /\ UNCHANGED <<ctor, self, debug, calls, deferred, nops, last, pending>>

\* line 76: self._li_factory = None
TClearFactory(t) ==
    /\ ctx[t].pc = "clear_factory"
    /\ self' = [self EXCEPT !._li_factory = "None"]
    /\ ctx' = [ctx EXCEPT ![t].pc = "clear_hint"]
    /\ UNCHANGED <<ctor, debug, calls, deferred, nops, last, pending>>

\* line 77: self._li_type_hint = None
TClearHint(t) ==
    /\ ctx[t].pc = "clear_hint"
    /\ self' = [self EXCEPT !._li_type_hint = "None"]
    /\ ctx' = [ctx EXCEPT ![t].pc = "return"]
    /\ UNCHANGED <<ctor, debug, calls, deferred, nops, last, pending>>

\* line 79: return self._li_instance
TReturn(t) ==
    /\ ctx[t].pc = "return"
    /\ ctx' = [ctx EXCEPT ![t] =
                  Context("done", ctx[t].prod,
                          Result("instance", self._li_instance, "", 0))]
    /\ UNCHANGED <<ctor, self, debug, calls, deferred, nops, last, pending>>

----------------------------------------------------------------------------
(* Specifications *)

\* no concurrent reader
ConcIdle == ctx = [t \in Threads |-> Context("none", None, NoRet)]

\* the proxy alone: comp is not used
CompIdle ==
    /\ funcs = <<>>
    /\ x = 0
    /\ composed = NoCallable
    /\ cres = Raised("none")
    /\ cpc = "idle"

\* comp alone: one proxy exists and is not used
LazyIdle ==
    /\ ctor = Ctor("makeA", "None", FALSE)
    /\ self = NewLazyInstance("makeA", "None", FALSE)
    /\ calls = 0
    /\ deferred = {}
    /\ nops = 0
    /\ last = Op("new", NoItem, 0, self, 0, Result("instance", None, "", 0))
    /\ pending = NoMap

Init == InitLazy /\ CompIdle /\ ConcIdle

Next ==
    \/ GetAttr /\ UNCHANGED <<compVars, ctx>>
    \/ BindMethod /\ UNCHANGED <<compVars, ctx>>
    \/ InvokeDeferred /\ UNCHANGED <<compVars, ctx>>
    \/ ForceInstance /\ UNCHANGED <<compVars, ctx>>
    \/ BindMethodMany /\ UNCHANGED <<compVars, ctx>>
    \/ MapNext /\ UNCHANGED <<compVars, ctx>>

Spec == Init /\ [][Next]_vars

InitC == debug \in BOOLEAN /\ LazyIdle /\ InitComp /\ ConcIdle

NextC ==
    \/ Compose /\ UNCHANGED <<lazyVars, ctx>>
    \/ Invoke /\ UNCHANGED <<lazyVars, ctx>>

SpecComp == InitC /\ [][NextC]_vars

\* two contexts each about to read _instance of one freshly built proxy
InitConc ==
    /\ InitLazy
    /\ Built
    /\ CompIdle
    /\ ctx = [t \in Threads |-> Context("test", None, NoRet)]

NextConc ==
    \E t \in Threads :
        \/ TTest(t) /\ UNCHANGED compVars
        \/ TCall(t) /\ UNCHANGED compVars
        \/ TStore(t) /\ UNCHANGED compVars
        \/ TAssert(t) /\ UNCHANGED compVars
        \/ TClearFactory(t) /\ UNCHANGED compVars
        \/ TClearHint(t) /\ UNCHANGED compVars
        \/ TReturn(t) /\ UNCHANGED compVars

SpecConc == InitConc /\ [][NextConc]_vars

----------------------------------------------------------------------------
(* Properties of LazyInstance *)

\* the factory returns an object when called
Returns(factory) == factory # "raiser"

\* the factory's product passes the check of lines 74-75 for this proxy
Accepted(c) ==
    \/ ~debug
    \/ c.factory \in {"classA", "makeA"}
    \/ (c.type_hint = "None" /\ ~IsTypesType(c.factory))

\* the proxy's two lifecycle states, told apart by the factory reference
Unconstructed(s) == s._li_factory # "None"
Constructed(s) == s._li_factory = "None"

\* C1: over any sequence of operations on one proxy (attribute accesses,
\* _bind_method calls, invocations of deferred callables) the factory is
\* invoked at most once.  Stated for the factories that return their
\* product, which line 40 requires of a factory.
C1_FactoryAtMostOnce == Returns(ctor.factory) => calls <= 1

\* C2: for a proxy built without a type hint from a factory that is not a
\* class, construction does not invoke the factory, the first attribute
\* access invokes it exactly once and after every further attribute access
\* the count is still 1 (for a factory that returns its product, as line 40
\* requires of it).
C2_HintlessSingleCall ==
    (ctor.type_hint = "None" /\ ~IsTypesType(ctor.factory) /\ Returns(ctor.factory)) =>
        /\ nops = 0 => calls = 0
        /\ last.op = "getattr" => calls = 1
        /\ (last.op = "getattr" /\ last.before = 0) => Constructed(self)

C2_Witness ==
    /\ ctor.type_hint = "None" /\ ~IsTypesType(ctor.factory) /\ Returns(ctor.factory)
    /\ last.op = "getattr"
    /\ last.before = 1
    /\ last.pre._li_instance = self._li_instance
    /\ nops >= 3
    /\ calls = 1

\* C3: on an Unconstructed proxy _bind_method("run") returns a callable
\* without invoking the factory, the first invocation of that callable
\* invokes the factory exactly once and later invocations do not invoke it
\* again.  Stated for the factories that return their product.
C3_BindRunSingleCall ==
    Returns(ctor.factory) =>
        /\ (last.op = "bind" /\ last.item = Item("name", "run") /\ Unconstructed(last.pre)) =>
              (last.out.kind = "deferred" /\ calls = last.before /\ self = last.pre)
        /\ (last.op = "invoke_bind" /\ last.item = Item("name", "run")) => calls = 1

\* C4: the deferred callable _bind_method returns for a single item on an
\* Unconstructed proxy, invoked with an argument once the instance exists,
\* resolves the item (the name, or the getter) on the real instance and
\* returns what calling that member of the instance with the argument returns.
C4_BindSingleItemDelegates ==
    (last.op = "invoke_bind" /\ Constructed(self)) =>
        last.out = CallResult(GetattrObj(self._li_instance, last.item.name), last.arg)

\* C5: on an Unconstructed proxy with type hint A and strict=True, accessing
\* an attribute name A lacks raises AttributeError from the lookup on A, the
\* factory is not invoked and the proxy stays as it was.
C5_StrictMissRaises ==
    (/\ last.op = "getattr"
     /\ last.pre._li_strict
     /\ last.pre._li_type_hint = "A"
     /\ Unconstructed(last.pre)
     /\ ~TypeHasAttr(last.item.name)) =>
        /\ last.out = Result("AttributeError", TypeA, last.item.name, 0)
        /\ calls = last.before
        /\ self = last.pre
        /\ Unconstructed(self)

C5_Witness ==
    /\ last.op = "getattr"
    /\ ctor.strict
    /\ last.pre._li_type_hint = "A"
    /\ last.item.name = "foo"
    /\ last.out.kind = "AttributeError"
    /\ calls = 0
    /\ nops >= 2

\* C6: on an Unconstructed proxy with type hint A and strict=False,
\* accessing an attribute name A lacks never raises from the lookup on A and
\* invokes the factory; when the factory yields an instance the proxy
\* accepts, the proxy becomes Constructed around that instance and the
\* access yields exactly what the instance's own attribute access yields
\* (its value, or its AttributeError).
C6_LenientMissDelegates ==
    (/\ last.op = "getattr"
     /\ ~last.pre._li_strict
     /\ last.pre._li_type_hint = "A"
     /\ Unconstructed(last.pre)
     /\ ~TypeHasAttr(last.item.name)) =>
        /\ last.out.obj # TypeA
        /\ calls = last.before + 1
        /\ (Returns(ctor.factory) /\ Accepted(ctor)) =>
              /\ Constructed(self)
              /\ self._li_instance = FactoryCall(ctor.factory, calls).obj
              /\ last.out = GetattrObj(self._li_instance, last.item.name)

C6_Witness ==
    /\ last.op = "getattr"
    /\ ~ctor.strict
    /\ ctor.type_hint = "A"
    /\ last.pre._li_type_hint = "A"
    /\ last.item.name = "extra"
    /\ last.out = Result("value", self._li_instance, "extra", 0)
    /\ Constructed(self)

\* a second case of C6: the instance lacks the name too and raises its own
\* AttributeError
C6_WitnessMiss ==
    /\ last.op = "getattr"
    /\ ~ctor.strict
    /\ last.pre._li_type_hint = "A"
    /\ last.item.name = "foo"
    /\ last.out = Result("AttributeError", self._li_instance, "foo", 0)
    /\ Constructed(self)

\* C7 as stated: for a proxy LazyInstance(factory, type_hint=A) whose
\* factory returns an object that is not an instance of A, every attribute
\* access raises the type-mismatch failure, whatever the name (here with
\* assert statements enabled, the interpreter's default).
C7_AnyAccessRaisesMismatch ==
    (/\ last.op = "getattr"
     /\ ctor = Ctor("makeB", "A", FALSE)
     /\ debug) =>
        last.out.kind = "AssertionError"

\* C7 as amended: with assert statements enabled, for a proxy with type hint
\* A whose factory returns an object that is not an instance of A, an
\* attribute access that reaches the instance (the name is not a callable
\* member of A, and in strict mode is not absent from A) raises the
\* type-mismatch failure; for a callable member of A the access returns a
\* deferred caller and it is the invocation of that caller that raises it.
C7_ForcingAccessRaisesMismatch ==
    (ctor.type_hint = "A" /\ ctor.factory = "makeB" /\ debug) =>
        /\ (/\ last.op = "getattr"
            /\ ~TypeAttrCallable(last.item.name)
            /\ ~(ctor.strict /\ ~TypeHasAttr(last.item.name))) =>
                last.out.kind = "AssertionError"
        /\ (last.op = "getattr" /\ TypeAttrCallable(last.item.name)) =>
                last.out.kind = "deferred"
        /\ last.op = "invoke_getattr" => last.out.kind = "AssertionError"

C7_Witness ==
    /\ ctor.type_hint = "A" /\ ctor.factory = "makeB" /\ debug
    /\ last.op = "invoke_getattr"
    /\ last.out.kind = "AssertionError"
    /\ last.out.obj.cls = "B"

\* C8: on an Unconstructed proxy with a type hint (given, or defaulted to
\* the factory that is a class), accessing a callable member of the hint
\* returns a deferred caller, leaves the proxy Unconstructed and does not
\* invoke the factory; invoking the deferred caller with an argument makes
\* the instance exist and returns what that method of the real instance
\* returns for the argument (for a factory whose product the proxy accepts).
C8_MethodAccessDefers ==
    /\ (/\ last.op = "getattr"
        /\ last.pre._li_type_hint = "A"
        /\ Unconstructed(last.pre)
        /\ TypeAttrCallable(last.item.name)) =>
           /\ last.out.kind = "deferred"
           /\ self = last.pre
           /\ calls = last.before
           /\ (Returns(ctor.factory) /\ Accepted(ctor)) => calls = 0
           /\ \E d \in deferred : d.by = "getattr" /\ d.item = last.item
    /\ (last.op = "invoke_getattr" /\ Returns(ctor.factory) /\ Accepted(ctor)) =>
           /\ Constructed(self)
           /\ calls = 1
           /\ self._li_instance = FactoryCall(ctor.factory, 1).obj
           /\ last.out = CallResult(GetattrObj(self._li_instance, last.item.name), last.arg)

C8_Witness ==
    /\ last.op = "invoke_getattr"
    /\ ctor.type_hint = "None"
    /\ ctor.factory = "classA"
    /\ Unconstructed(last.pre)
    /\ last.out = Result("return", Obj("A", 1), "run", 2)

\* C9: once the proxy is Constructed no operation returns it to
\* Unconstructed and the cached instance stays the same object.
C9_OneWay ==
    [][Constructed(self) => (Constructed(self') /\ self'._li_instance = self._li_instance)]_vars

C9_Witness ==
    /\ Constructed(last.pre)
    /\ Constructed(self)
    /\ last.op = "invoke_getattr"
    /\ nops >= 3

----------------------------------------------------------------------------
(* Properties of comp *)

\* what comp gave is an error, not a callable
IsCompError(c) == c.kind \in {"AssertionError", "TypeError"}

AllCallable(fs) == \A i \in 1 .. Len(fs) : callable(fs[i])

\* f1(f2(...fn(v)...)): the last function of fs applied first
RECURSIVE Nested(_, _)
Nested(fs, v) ==
    IF fs = <<>> THEN v ELSE Apply(Head(fs), Nested(Tail(fs), v))

\* fn(...f2(f1(v))...): the first function of fs applied first
RECURSIVE Pipeline(_, _)
Pipeline(fs, v) ==
    IF fs = <<>> THEN v
    ELSE Apply(fs[Len(fs)], Pipeline(SubSeq(fs, 1, Len(fs) - 1), v))

\* C10 as stated: for n >= 2 unary functions f1..fn and every input x,
\* comp(f1, ..., fn)(x) = f1(f2(...fn(x)...)): the last-declared function is
\* applied to the input first.
C10_LastDeclaredFirst ==
    (cpc = "done" /\ Len(funcs) >= 2 /\ AllCallable(funcs)) =>
        cres = Value(Nested(funcs, x))

\* C10 as amended: for n >= 2 unary functions f1..fn and every input x,
\* comp(f1, ..., fn)(x) = fn(...f2(f1(x))...): the first-declared function is
\* applied to the input first and the last-declared function last.
C10_FirstDeclaredFirst ==
    (cpc = "done" /\ Len(funcs) >= 2 /\ AllCallable(funcs)) =>
        /\ composed = Callable0("partial", "", funcs)
        /\ cres = Value(Pipeline(funcs, x))

C10_Witness ==
    /\ cpc = "done"
    /\ funcs = <<"inc", "dbl", "neg">>
    /\ x = 1
    /\ cres = Value(1)
    /\ cres # Value(Nested(funcs, x))

\* C13: constructing LazyInstance(factory, type_hint=t) with t neither None
\* nor a type raises TypeError at construction time, and the failed
\* construction does not invoke the factory: no proxy exists to operate on.
C13_BadHintRaises ==
    (ctor.type_hint # "None" /\ ~IsTypesType(ctor.type_hint)) =>
        /\ last.op = "new"
        /\ last.out.kind = "TypeError"
        /\ calls = 0
        /\ nops = 0
        /\ deferred = {}

C13_Witness ==
    /\ ctor = Ctor("makeA", "one", FALSE)
    /\ last.op = "new"
    /\ last.out.kind = "TypeError"
    /\ self._li_factory = "makeA"
    /\ calls = 0

\* C14: in every reachable state of a proxy, also after an access failed,
\* its fields have exactly one of two shapes: Unconstructed (factory set,
\* instance absent) or Constructed (factory cleared, type hint cleared,
\* instance set to the factory's product).
C14_TwoShapes ==
    Built =>
        \/ /\ Unconstructed(self)
           /\ self._li_instance = None
        \/ /\ Constructed(self)
           /\ self._li_type_hint = "None"
           /\ calls >= 1
           /\ self._li_instance = FactoryCall(ctor.factory, calls).obj

\* C15: once the proxy is Constructed, whatever its strict flag and the type
\* hint it was built with, proxy.name gives exactly the outcome of
\* instance.name, and _li_bind_method_impl applied to a name or a getter
\* gives the target resolved on the cached instance at once, not a deferred
\* callable; neither invokes the factory nor changes the proxy.
C15_ConstructedDelegates ==
    (Built /\ Constructed(last.pre) /\ last.op \in {"getattr", "next"}) =>
        /\ last.out = GetattrObj(last.pre._li_instance, last.item.name)
        /\ calls = last.before
        /\ self = last.pre

C15_Witness ==
    /\ last.op = "getattr"
    /\ Constructed(last.pre)
    /\ ctor = Ctor("classA", "None", TRUE)
    /\ last.item.name = "extra"
    /\ last.out = Result("value", Obj("A", 1), "extra", 0)

C15_WitnessImpl ==
    /\ last.op = "next"
    /\ Constructed(last.pre)
    /\ ctor.type_hint = "A"
    /\ last.item = Item("getter", "run")
    /\ last.out = Result("method", Obj("A", 1), "run", 0)
    /\ calls = 1

\* C16: a deferred callable made while the proxy was Unconstructed and
\* invoked after the proxy became Constructed by another path does not
\* invoke the factory: it looks its target up on the cached instance when
\* it is invoked and leaves the proxy as it is, however many deferred
\* callables exist and in whatever order they are invoked.
C16_LateInvokeUsesCache ==
    (last.op \in {"invoke_getattr", "invoke_bind", "invoke_map"}
            /\ Constructed(last.pre)) =>
        /\ calls = last.before
        /\ self = last.pre
        /\ last.out.obj = last.pre._li_instance
        /\ last.op # "invoke_bind" =>
              last.out = CallResult(
                  GetattrObj(last.pre._li_instance, last.item.name), last.arg)

C16_Witness ==
    /\ last.op = "invoke_getattr"
    /\ Constructed(last.pre)
    /\ Cardinality(deferred) = 2
    /\ calls = 1
    /\ last.out = Result("return", Obj("A", 1), "run", 2)

C16_WitnessMap ==
    /\ last.op = "invoke_map"
    /\ Constructed(last.pre)
    /\ calls = 1
    /\ last.item = Item("getter", "run")
    /\ last.out.kind = "return"

\* C17 as stated: every element produced by the sequence that _bind_method
\* made from k >= 2 items on an Unconstructed proxy is a deferred callable,
\* and producing it does not invoke the factory.
C17_ManyAlwaysDeferred ==
    (last.op = "next" /\ pending.fresh) =>
        /\ last.out = Result("deferred", None, last.item.name, 0)
        /\ calls = last.before

\* C17 as amended: _bind_method called with k >= 2 items on an Unconstructed
\* proxy gives a sequence that produces, while the proxy stays Unconstructed, one
\* deferred callable per item, the i-th for the i-th item, and never more
\* than k; making and iterating the sequence does not invoke the factory
\* and leaves the proxy as it is, and invoking one of the callables does
\* invoke the factory.
C17_ManyDeferred ==
    /\ pending.pos <= Len(pending.items)
    /\ (last.op = "bind_many" /\ Unconstructed(last.pre)) =>
          /\ last.arg = Len(pending.items)
          /\ last.arg >= 2
          /\ pending.pos = 0
          /\ pending.fresh
          /\ calls = last.before
          /\ self = last.pre
    /\ (last.op = "next" /\ Unconstructed(last.pre)) =>
          /\ last.arg = pending.pos
          /\ last.item = pending.items[pending.pos]
          /\ last.out = Result("deferred", None, last.item.name, 0)
          /\ \E d \in deferred : d.by = "map" /\ d.item = last.item
          /\ calls = last.before
          /\ self = last.pre
    /\ (last.op = "invoke_map" /\ Unconstructed(last.pre)) =>
          /\ calls = last.before + 1
          /\ (Returns(ctor.factory) /\ Accepted(ctor)) =>
                last.out = CallResult(
                    GetattrObj(self._li_instance, last.item.name), last.arg)

C17_Witness ==
    /\ last.op = "next"
    /\ Unconstructed(self)
    /\ pending = MapObject(<<Item("getter", "run"), Item("name", "run")>>, 2, TRUE)
    /\ Cardinality(deferred) = 2
    /\ last.item = Item("name", "run")
    /\ calls = 0

C17_WitnessInvoke ==
    /\ last.op = "invoke_map"
    /\ Unconstructed(last.pre)
    /\ pending.pos = 2
    /\ last.item = Item("getter", "run")
    /\ last.out.kind = "return"
    /\ calls = 1

\* C18: _instance has no synchronization: the test of line 72, the factory
\* call of line 73 and the clearing of line 76 are separate steps, and a
\* context that has passed the test calls the factory whenever the factory
\* is still set, also when another context has called it in between; so
\* with two contexts reading _instance at once the factory can be invoked
\* twice (C18_Witness).
C18_NoSynchronization ==
    [][\A t \in Threads :
          (ctx[t].pc = "call" /\ ctx'[t].pc # "call" /\ self._li_factory # "None")
              => calls' = calls + 1]_vars

C18_Witness ==
    /\ calls = 2
    /\ ctor = Ctor("makeA", "None", FALSE)
    /\ \A t \in Threads : ctx[t].pc = "done"
    /\ Constructed(self)

\* C19: when the factory call raises during a forced access or the
\* invocation of a deferred callable, that error is what the operation
\* raises, and the proxy is as before: Unconstructed, with the factory, type
\* hint and strict flag it was built with and no instance cached.
C19_FactoryErrorKeepsState ==
    (Built /\ ctor.factory = "raiser") =>
        /\ (last.op \in {"instance", "invoke_getattr", "invoke_bind", "invoke_map"})
              => calls = last.before + 1
        /\ calls # last.before =>
              /\ last.out = Result("FactoryError", None, "", 0)
              /\ self = last.pre
        /\ Unconstructed(self)
        /\ self = NewLazyInstance(ctor.factory, ctor.type_hint, ctor.strict)

C19_Witness ==
    /\ ctor = Ctor("raiser", "A", TRUE)
    /\ last.op = "invoke_getattr"
    /\ last.out.kind = "FactoryError"
    /\ calls = 2
    /\ self._li_factory = "raiser"
    /\ self._li_type_hint = "A"
    /\ self._li_instance = None

\* C20: Constructed is decided by the factory having been cleared, not by
\* the instance being something other than None: for a proxy without type
\* hint whose factory returns None, the first forced access invokes the
\* factory and makes the proxy Constructed with None cached, and every
\* later access or deferred invocation reuses that None without invoking the
\* factory again.
C20_NoneProductCached ==
    (ctor.factory = "makeNone" /\ ctor.type_hint = "None") =>
        /\ calls <= 1
        /\ calls = 0 => Unconstructed(self)
        /\ calls = 1 => (Constructed(self) /\ self._li_instance = None)
        /\ (last.op \in {"getattr", "instance", "invoke_bind", "invoke_map"})
              => (calls = 1 /\ last.out.obj = None)
        /\ last.op = "instance" => last.out = Result("instance", None, "", 0)

C20_Witness ==
    /\ ctor.factory = "makeNone"
    /\ ctor.type_hint = "None"
    /\ last.op = "instance"
    /\ Constructed(last.pre)
    /\ last.out = Result("instance", None, "", 0)
    /\ calls = 1

C20_WitnessInvoke ==
    /\ ctor.factory = "makeNone"
    /\ ctor.type_hint = "None"
    /\ last.op = "invoke_map"
    /\ Constructed(last.pre)
    /\ last.pre._li_instance = None
    /\ calls = 1

\* C11: comp() with no function returns a callable that maps every x to x
\* unchanged, and comp(f) with exactly one function returns f itself, not a
\* wrapper, so that comp(f)(x) = f(x).
C11_ZeroAndOne ==
    /\ (cpc \in {"composed", "done"} /\ funcs = <<>>) =>
          /\ composed = Callable0("identity", "", <<>>)
          /\ cpc = "done" => cres = Value(x)
    /\ (cpc \in {"composed", "done"} /\ Len(funcs) = 1 /\ AllCallable(funcs)) =>
          /\ composed = Callable0("func", funcs[1], <<>>)
          /\ cpc = "done" => cres = Value(Apply(funcs[1], x))

C11_Witness ==
    /\ cpc = "done"
    /\ funcs = <<"dbl">>
    /\ x = 2
    /\ composed = Callable0("func", "dbl", <<>>)
    /\ cres = Value(4)

C11_WitnessZero ==
    /\ cpc = "done"
    /\ funcs = <<>>
    /\ x = 3
    /\ cres = Value(3)

\* C12 as stated: comp called with an argument list that contains an element
\* that is not callable fails at composition time: no callable is returned
\* and none of the functions is called.
C12_NonCallableFails ==
    (cpc # "start" /\ ~AllCallable(funcs)) =>
        /\ cpc = "failed"
        /\ IsCompError(composed)
        /\ cres = Raised("none")

\* C12 as amended: with assert statements enabled, comp called with an
\* argument list that contains an element that is not callable raises
\* AssertionError at composition time: no callable is returned and none of
\* the functions is called.
C12_NonCallableAsserts ==
    (debug /\ cpc # "start" /\ ~AllCallable(funcs)) =>
        /\ cpc = "failed"
        /\ composed = Callable0("AssertionError", "", <<>>)
        /\ cres = Raised("none")

C12_Witness ==
    /\ debug
    /\ cpc = "failed"
    /\ funcs = <<"inc", "one">>
    /\ composed.kind = "AssertionError"

====
